---- MODULE Spec2Model ----
(***************************************************************************)
(* A model of src/libcore/rt/io/net/tcp.rs: TcpStream and TcpListener, the *)
(* blocking-style adapters over the runtime's non-blocking I/O backend.    *)
(*                                                                         *)
(* The adapter code (connect, read, write, bind, accept) is translated     *)
(* from tcp.rs.  The I/O backend (rt::rtio / rt::uv::uvio), the condition  *)
(* system (io_error, read_error) and the scheduler are not part of tcp.rs; *)
(* they are modelled from the specification's description of them.         *)
(***************************************************************************)
EXTENDS Integers, Sequences, FiniteSets, TLC

(* ------------------------------ bounds -------------------------------- *)

\* bytes an endpoint may write while its peer is open
MaxWrites == 1
\* writes to closed peers the backend still accepts in one run
MaxGrace == 1

(* ------------------------------ domains ------------------------------- *)

\* The tasks run the programs of the tests.  An acceptor binds once, then
\* accepts, reads from what it accepted or runs the write_close loop on it;
\* a connector connects once, then writes.  An acceptor may drop a stream or
\* its listener while it runs; whatever a task still owns when it ends, by
\* returning or by failing, goes out of scope with it.
\* The connectors are alike, so they are taken to call connect in the order
\* of ConnectorOrder.
\* In the interleaved program the acceptor keeps no stream: each stream it
\* accepts is moved into a task spawned for it, which reads it, while the
\* acceptor goes on to its next accept.  These readers are spawned in the
\* order of ReaderOrder, one for each connection there can be.
Acceptors == {"t1"}
ConnectorOrder == <<"t2", "t3">>
Connectors == {ConnectorOrder[i] : i \in 1..Len(ConnectorOrder)}
ReaderOrder == <<"r1", "r2">>
Readers == {ReaderOrder[i] : i \in 1..Len(ReaderOrder)}
Tasks == Acceptors \cup Connectors \cup Readers

\* Ipv4(0, 0, 0, 0, 1): port 1, which an unprivileged process may not bind
\* and where nothing listens; and the address next_test_ip4() hands out.
PrivAddr == "0.0.0.0:1"
TestAddr == "127.0.0.1:test"
Addrs == {PrivAddr, TestAddr}

\* The connectors run one of two programs.  In "interleaved"
\* (multiple_connect_interleaved_greedy_schedule) connector number i, counted
\* from 0 in the order of the connect calls, writes `[i as u8]`; a
\* connector calls connect once the connect before it has returned, and
\* the writes follow in any order; in "serial" (smoke_test,
\* multiple_connect_serial) every connection is written [99], and a
\* connection is made once the one before it has been dealt with.
\* write_close writes the buffer [0]; a read is given a buffer of one byte
\* (`let mut buf = [0]`), or an empty one.
Programs == {"interleaved", "serial"}
SmokeByte == 99
IndexOf(t) == CHOOSE i \in 1..Len(ConnectorOrder) : ConnectorOrder[i] = t
ByteOf(prog, t) == IF prog = "interleaved" THEN IndexOf(t) - 1 ELSE SmokeByte
LoopByte == 0
\* what a read buffer holds before the read: `[0]`
BufInit(n) == [i \in 1..n |-> 0]
BufLens == {0, 1}

\* The handler installed for each condition in the caller's dynamic scope:
\* none; one that returns whatever the error ("resume"); or one of the
\* handlers of the tests, which assert the kind of the error and so fail the
\* task from inside the handler when given another: "bind_error" (kind ==
\* PermissionDenied), "connect_error" (kind == ConnectionRefused) and
\* "write_close" (kind == ConnectionReset || kind == BrokenPipe).
TrapModes == {"none", "resume", "bind_error", "connect_error", "write_close"}
BindErrorTrap == [io_error |-> "bind_error", read_error |-> "none"]
ConnectErrorTrap == [io_error |-> "connect_error", read_error |-> "none"]
WriteCloseTrap == [io_error |-> "write_close", read_error |-> "none"]
NoTrap == [io_error |-> "none", read_error |-> "none"]
IoTrap == [io_error |-> "resume", read_error |-> "none"]
BothTraps == [io_error |-> "resume", read_error |-> "resume"]
\* the tests trap io_error only; a read_error handler, where one is
\* installed, comes with an io_error handler and both return
AllTraps ==
  {tr \in [io_error : TrapModes, read_error : {"none", "resume"}] :
     tr.read_error = "resume" => tr.io_error = "resume"}
Traps == {NoTrap, BothTraps}
\* around a read, a caller may also have trapped io_error alone
ReadTraps == Traps \cup {IoTrap}
\* bind_error's handler, or one written for another failure
BindTraps == Traps \cup {BindErrorTrap, ConnectErrorTrap}
ConnectTraps == Traps \cup {ConnectErrorTrap}

(* ------------------------ values of the program ----------------------- *)

None == [some |-> FALSE]
Some(v) == [some |-> TRUE, val |-> v]
Unit == [unit |-> TRUE]

Ok(v) == [ok |-> TRUE, val |-> v]
Err(e) == [ok |-> FALSE, err |-> e]

EndOfFile == "EndOfFile"
PermissionDenied == "PermissionDenied"
ConnectionRefused == "ConnectionRefused"
ConnectionReset == "ConnectionReset"
BrokenPipe == "BrokenPipe"
OtherIoError == "OtherIoError"

IoError(k, d) == [kind |-> k, detail |-> d]

Signal(c, e) == [cond |-> c, err |-> e]

NoCall == [op |-> "none"]
\* the result of a call that asked nothing of the backend
NoBackendCall == [called |-> FALSE]
NoRet == [noret |-> TRUE]

Min(a, b) == IF a < b THEN a ELSE b

SubSeqTo(s, n) == SubSeq(s, 1, n)
SubSeqFrom(s, n) == SubSeq(s, n + 1, Len(s))

VARIABLES
  program,    \* the program the connectors run: "interleaved" or "serial"
  pc,         \* task -> "start" | "run" | "parked" (suspended in a call) |
              \* "failed" | "done" (returned normally) | "guest" (spawned
              \* with a listener another task bound, to call accept on
              \* it) | "unspawned" (a reader no stream was accepted for yet)
  pending,    \* task -> the call the task is suspended in, or NoCall
  loop,       \* task -> the stream its write_close loop writes to, or NoHandle
  last,       \* the call that has just completed, with its outcome, until
              \* it has returned to its caller; NoCall otherwise
  listeners,  \* backend: sequence of listener objects
  conns,      \* backend: sequence of connections, two endpoints each
  graces,     \* backend: writes accepted although the peer had closed
  issued,     \* stream handles returned by connect/accept so far
  started,    \* connections in the order their connect calls were issued
  sigBalance  \* non-EOF backend failures minus signals raised

vars == <<program, pc, pending, loop, last, listeners, conns, graces, issued,
          started, sigBalance>>

(* ----------------- the I/O backend (rt::rtio objects) ------------------ *)

NoHandle == [conn |-> 0, side |-> "none"]
Handle(c, sd) == [conn |-> c, side |-> sd]
Peer(h) == Handle(h.conn, IF h.side = "c" THEN "s" ELSE "c")

\* one endpoint of a connection: st is "queued" (completed, waiting in the
\* listener's backlog), "open" or "closed"; inbuf holds the bytes received
\* and not yet read, wrote is the history of the bytes written here, eof
\* tells that a read here has met the end of the stream
NewEnd(state, t) ==
  [st |-> state, owner |-> t, inbuf |-> <<>>, wrote |-> <<>>, eof |-> FALSE]

EndOf(cs, h) == cs[h.conn][h.side]
SetEnd(cs, h, e) == [cs EXCEPT ![h.conn][h.side] = e]

StreamHandles(cs) == {Handle(c, sd) : c \in 1..Len(cs), sd \in {"c", "s"}}

\* closing an endpoint (the destructor of the backend stream object)
CloseEnd(cs, h) ==
  SetEnd(cs, h, [EndOf(cs, h) EXCEPT !.st = "closed", !.owner = "nobody",
                                     !.inbuf = <<>>])

RECURSIVE CloseEnds(_, _)
CloseEnds(cs, hs) ==
  IF hs = {} THEN cs
  ELSE LET h == CHOOSE x \in hs : TRUE
       IN CloseEnds(CloseEnd(cs, h), hs \ {h})

\* closing a listener releases its address and the connections still queued
CloseListener(ls, cs, l) ==
  [ls |-> [ls EXCEPT ![l].open = FALSE, ![l].owner = "nobody",
                     ![l].backlog = <<>>],
   cs |-> CloseEnds(cs, {Handle(ls[l].backlog[i], "s") :
                           i \in 1..Len(ls[l].backlog)})]

RECURSIVE CloseListeners(_, _, _)
CloseListeners(ls, cs, lset) ==
  IF lset = {} THEN [ls |-> ls, cs |-> cs]
  ELSE LET l == CHOOSE x \in lset : TRUE
           r == CloseListener(ls, cs, l)
       IN CloseListeners(r.ls, r.cs, lset \ {l})

\* a task that ends without its objects being destroyed
DropAll_leak(ls, cs, t) == [ls |-> ls, cs |-> cs]

\* every backend object task t owns is released
DropAll(ls, cs, t) ==
  CloseListeners(ls,
                 CloseEnds(cs, {h \in StreamHandles(cs) : EndOf(cs, h).owner = t}),
                 {l \in 1..Len(ls) : ls[l].owner = t})

OpenListenersAt(ls, addr) ==
  {l \in 1..Len(ls) : ls[l].open /\ ls[l].addr = addr}

\* IoFactory::tcp_connect: refused unless a listener is bound at addr
tcp_connect(ls, cs, addr) ==
  IF OpenListenersAt(ls, addr) = {}
  THEN Err(IoError(ConnectionRefused, addr))
  ELSE Ok(Handle(Len(cs) + 1, "c"))

\* IoFactory::tcp_bind
tcp_bind(ls, addr) ==
  IF addr = PrivAddr THEN Err(IoError(PermissionDenied, addr))
  ELSE IF OpenListenersAt(ls, addr) # {} THEN Err(IoError(OtherIoError, addr))
  ELSE Ok(Len(ls) + 1)

\* a backlog served newest first
rtio_accept_lifo(ls, l) ==
  Ok(Handle(ls[l].backlog[Len(ls[l].backlog)], "s"))

\* RtioTcpListener::accept, once a connection is queued: the oldest one
rtio_accept(ls, l) == Ok(Handle(Head(ls[l].backlog), "s"))

\* a backlog from which an accepted connection is not taken off
rtio_dequeue_keep(backlog, c) == backlog

\* the accepted connection leaves the listener's backlog
rtio_dequeue(backlog, c) == SelectSeq(backlog, LAMBDA x : x # c)

\* RtioTcpStream::read into a buffer of n bytes, once the endpoint is readable
rtio_read(e, n) ==
  IF e.inbuf # <<>> THEN Ok(Min(n, Len(e.inbuf)))
  ELSE Err(IoError(EndOfFile, "eof"))

(* -------------- conditions (io_error, read_error): raise -------------- *)

\* what raising err does under a handler of the given mode: with no handler
\* the task fails at the raise; a handler that returns resumes the raiser; a
\* handler whose assert fails ends the task inside the handler
raise(mode, err) ==
  CASE mode = "none" -> "fail"
    [] mode = "resume" -> "resume"
    [] mode = "bind_error" ->
         IF err.kind = PermissionDenied THEN "resume" ELSE "fail"
    [] mode = "connect_error" ->
         IF err.kind = ConnectionRefused THEN "resume" ELSE "fail"
    [] mode = "write_close" ->
         IF err.kind \in {ConnectionReset, BrokenPipe} THEN "resume" ELSE "fail"

\* index of the first signal of sigs that fails the task, 0 if none does
FirstFatal(sigs, trap) ==
  LET fatal == {i \in 1..Len(sigs) : raise(trap[sigs[i].cond], sigs[i].err) = "fail"}
  IN IF fatal = {} THEN 0 ELSE CHOOSE i \in fatal : \A j \in fatal : i <= j

(* ------------------------- tcp.rs: the adapters ------------------------ *)

\* TcpStream::new
TcpStream_new(s) == [rtstream |-> s]

\* connect with the Err arm returning None without raising
connect_match_silent(stream) ==
  IF stream.ok
  THEN [ret |-> Some(TcpStream_new(stream.val)), raise |-> <<>>]
  ELSE [ret |-> None, raise |-> <<>>]

\* TcpStream::connect, the match on the backend's result
connect_match(stream) ==
  IF stream.ok
  THEN [ret |-> Some(TcpStream_new(stream.val)), raise |-> <<>>]
  ELSE [ret |-> None, raise |-> <<Signal("io_error", stream.err)>>]

\* read without the test `ioerr.kind != EndOfFile`: end of file raises too
read_match_eof_raises(bytes_read) ==
  IF bytes_read.ok
  THEN [ret |-> Some(bytes_read.val), raise |-> <<>>]
  ELSE [ret |-> None, raise |-> <<Signal("read_error", bytes_read.err)>>]

\* read raising io_error, as every other operation does, for read_error
read_match_io_error(bytes_read) ==
  IF bytes_read.ok
  THEN [ret |-> Some(bytes_read.val), raise |-> <<>>]
  ELSE [ret |-> None,
        raise |-> IF bytes_read.err.kind # EndOfFile
                  THEN <<Signal("io_error", bytes_read.err)>>
                  ELSE <<>>]

\* read taking a count of zero for the end of the stream
read_match_zero_is_eof(bytes_read) ==
  IF bytes_read.ok /\ bytes_read.val > 0
  THEN [ret |-> Some(bytes_read.val), raise |-> <<>>]
  ELSE [ret |-> None,
        raise |-> IF ~bytes_read.ok /\ bytes_read.err.kind # EndOfFile
                  THEN <<Signal("read_error", bytes_read.err)>>
                  ELSE <<>>]

\* read handing back a byte count of zero once the handler has returned
read_match_zero_after_handler(bytes_read) ==
  IF bytes_read.ok
  THEN [ret |-> Some(bytes_read.val), raise |-> <<>>]
  ELSE IF bytes_read.err.kind # EndOfFile
  THEN [ret |-> Some(0), raise |-> <<Signal("read_error", bytes_read.err)>>]
  ELSE [ret |-> None, raise |-> <<>>]

\* read with the Err arm only returning None: no failure is ever raised
read_match_swallow(bytes_read) ==
  IF bytes_read.ok
  THEN [ret |-> Some(bytes_read.val), raise |-> <<>>]
  ELSE [ret |-> None, raise |-> <<>>]

\* Reader::read for TcpStream, the match on the backend's result
read_match(bytes_read) ==
  IF bytes_read.ok
  THEN [ret |-> Some(bytes_read.val), raise |-> <<>>]
  ELSE [ret |-> None,
        raise |-> IF bytes_read.err.kind # EndOfFile
                  THEN <<Signal("read_error", bytes_read.err)>>
                  ELSE <<>>]

\* write with the Err arm empty: the failure is swallowed
write_match_silent(res) == [ret |-> Unit, raise |-> <<>>]

\* write reporting a failure twice
write_match_twice(res) ==
  IF res.ok
  THEN [ret |-> Unit, raise |-> <<>>]
  ELSE [ret |-> Unit, raise |-> <<Signal("io_error", res.err),
                                  Signal("io_error", res.err)>>]

\* write raising read_error for io_error
write_match_read_error(res) ==
  IF res.ok
  THEN [ret |-> Unit, raise |-> <<>>]
  ELSE [ret |-> Unit, raise |-> <<Signal("read_error", res.err)>>]

\* Writer::write for TcpStream, the match on the backend's result
write_match(res) ==
  IF res.ok
  THEN [ret |-> Unit, raise |-> <<>>]
  ELSE [ret |-> Unit, raise |-> <<Signal("io_error", res.err)>>]

\* bind raising an error of its own making for the backend's
bind_match_other(listener) ==
  IF listener.ok
  THEN [ret |-> Some([rtlistener |-> listener.val]), raise |-> <<>>]
  ELSE [ret |-> None,
        raise |-> <<Signal("io_error", IoError(OtherIoError, listener.err.detail))>>]

\* TcpListener::bind, the match on the backend's result
bind_match(listener) ==
  IF listener.ok
  THEN [ret |-> Some([rtlistener |-> listener.val]), raise |-> <<>>]
  ELSE [ret |-> None, raise |-> <<Signal("io_error", listener.err)>>]

\* accept constructing a stream from whatever the backend returned
accept_match_unchecked(rtstream) ==
  [ret |-> Some(TcpStream_new(IF rtstream.ok THEN rtstream.val ELSE NoHandle)),
   raise |-> IF rtstream.ok THEN <<>> ELSE <<Signal("io_error", rtstream.err)>>]

\* accept with the Err arm returning None without raising
accept_match_silent(rtstream) ==
  IF rtstream.ok
  THEN [ret |-> Some(TcpStream_new(rtstream.val)), raise |-> <<>>]
  ELSE [ret |-> None, raise |-> <<>>]

\* accept wrapping the stream of the first connection whatever was accepted
accept_match_stale(rtstream) ==
  IF rtstream.ok
  THEN [ret |-> Some(TcpStream_new(Handle(1, "s"))), raise |-> <<>>]
  ELSE [ret |-> None, raise |-> <<Signal("io_error", rtstream.err)>>]

\* Listener::accept for TcpListener, the match on the backend's result
accept_match(rtstream) ==
  IF rtstream.ok
  THEN [ret |-> Some(TcpStream_new(rtstream.val)), raise |-> <<>>]
  ELSE [ret |-> None, raise |-> <<Signal("io_error", rtstream.err)>>]

(* --------------------- completion of a public call --------------------- *)

\* the record of a completed call: what held when the backend completed it
\* (pre), the one result res the backend gave it, the signals raised in it,
\* how many of them a handler received, and what the call returned
Finish(t, op, pre, trap, res, out) ==
  LET ff == FirstFatal(out.raise, trap)
      raised == IF ff = 0 THEN out.raise ELSE SubSeqTo(out.raise, ff)
  IN [task |-> t, op |-> op, pre |-> pre, trap |-> trap, res |-> res,
      raised |-> raised,
      handled |-> Cardinality({i \in 1..Len(raised) : trap[raised[i].cond] # "none"}),
      returned |-> (ff = 0),
      ret |-> IF ff = 0 THEN out.ret ELSE NoRet]

NonEofFailure(res) == ~res.ok /\ res.err.kind # EndOfFile

\* the stream handle a returned value wraps, if any
Wrapped(fin) ==
  IF fin.returned /\ fin.op \in {"connect", "accept"} /\ fin.ret.some
  THEN {fin.ret.val.rtstream} ELSE {}

\* The call of task t completes as fin, the backend being left in (ls, cs);
\* given are the backend objects the backend handed to the call.  A task
\* owns what the returned value wraps; an object nobody holds is destroyed,
\* and a task that fails releases everything it owns.
Complete(t, fin, ls, cs, given) ==
  LET kept == {h \in given : h \in Wrapped(fin)}
      cs1 == [c \in 1..Len(cs) |->
                [cs[c] EXCEPT !.c.owner = IF Handle(c, "c") \in kept THEN t ELSE @,
                              !.s.owner = IF Handle(c, "s") \in kept THEN t ELSE @]]
      cs2 == CloseEnds(cs1, given \ kept)
      end == IF fin.returned THEN [ls |-> ls, cs |-> cs2] ELSE DropAll(ls, cs2, t)
  IN /\ last' = fin
     /\ pc' = [pc EXCEPT ![t] = IF fin.returned THEN "run" ELSE "failed"]
     /\ pending' = [pending EXCEPT ![t] = NoCall]
     /\ loop' = [loop EXCEPT ![t] =
                   IF fin.returned /\ fin.handled = 0 THEN @ ELSE NoHandle]
     /\ listeners' = end.ls
     /\ conns' = end.cs
     /\ issued' = issued \cup Wrapped(fin)
     /\ sigBalance' = sigBalance + (IF NonEofFailure(fin.res) THEN 1 ELSE 0)
                                 - Len(fin.raised)

\* task t is running its own code (no call is returning, it is not suspended)
Running(t) == last = NoCall /\ pc[t] = "run"

Free(t) == Running(t) /\ loop[t] = NoHandle

\* the call suspends the calling task, and that task only
Park(t, call) ==
  /\ pc' = [pc EXCEPT ![t] = "parked"]
  /\ pending' = [pending EXCEPT ![t] = call]

(* ----------------------------- TcpStream ------------------------------- *)

\* `connect(i + 1, addr)` after `TcpStream::connect(addr)`: in the
\* interleaved program the task of a connection spawns the task of the next
\* one when its own connect has returned, and that task runs at once, up to
\* its connect; task t has returned from connect and has this still to do
HasToConnect(t) ==
  /\ program = "interleaved"
  /\ pc[t] = "run"
  /\ \E i \in 1..(Len(ConnectorOrder) - 1) :
       ConnectorOrder[i] = t /\ pc[ConnectorOrder[i + 1]] = "start"

\* TcpStream::connect(addr): borrows the backend and asks it to connect;
\* the task is suspended until the backend reports.  The serial program
\* makes a connection when the one before is done with; the interleaved one
\* when the connect before has returned, and before anything else is done
\* with that connection
connect(t, addr) ==
  /\ last = NoCall /\ pc[t] = "start"
  /\ \A i, j \in 1..Len(ConnectorOrder) :
       i < j /\ ConnectorOrder[j] = t =>
         IF program = "serial" THEN pc[ConnectorOrder[i]] = "done"
         ELSE /\ pc[ConnectorOrder[i]] # "start"
              /\ j = i + 1 => HasToConnect(ConnectorOrder[i])
  /\ Park(t, [op |-> "connect", addr |-> addr, ticket |-> started + 1])
  /\ started' = started + 1
  /\ UNCHANGED <<program, last, loop, listeners, conns, graces, issued,
                 sigBalance>>

\* the backend completes the connect and connect() maps its result
connect_resume(t, trap) ==
  /\ last = NoCall
  /\ pc[t] = "parked" /\ pending[t].op = "connect"
  /\ LET addr == pending[t].addr
         stream == tcp_connect(listeners, conns, addr)
         l == CHOOSE x \in OpenListenersAt(listeners, addr) : TRUE
         c == Len(conns) + 1
         cs == IF stream.ok
               THEN Append(conns, [lis |-> l, by |-> t,
                                   ticket |-> pending[t].ticket,
                                   c |-> NewEnd("open", "nobody"),
                                   s |-> NewEnd("queued", "nobody")])
               ELSE conns
         ls == IF stream.ok
               THEN [listeners EXCEPT ![l].backlog = Append(@, c)]
               ELSE listeners
         pre == [addr |-> addr,
                 listening |-> OpenListenersAt(listeners, addr) # {}]
         fin == Finish(t, "connect", pre, trap, stream, connect_match(stream))
     IN Complete(t, fin, ls, cs, IF stream.ok THEN {stream.val} ELSE {})
  /\ UNCHANGED <<program, graces, started>>

\* a stream used by whoever has its handle, whatever became of it
Owns_any(t, s) == s \in StreamHandles(conns)

\* task t holds the TcpStream of backend stream s
Owns(t, s) == s \in StreamHandles(conns) /\ EndOf(conns, s).owner = t

\* the task that accepted a stream uses it itself (every program but the
\* interleaved one, which moves it into a task of its own)
KeepsStreams == program # "interleaved"

\* task t has accepted a stream it is about to spawn the reader of
HasToSpawn(t) ==
  /\ ~KeepsStreams
  /\ t \notin Readers
  /\ \E s \in StreamHandles(conns) : s.side = "s" /\ EndOf(conns, s).owner = t

\* the reader spawned next
NextReader ==
  ReaderOrder[CHOOSE i \in 1..Len(ReaderOrder) :
                /\ pc[ReaderOrder[i]] = "unspawned"
                /\ \A j \in 1..(i - 1) : pc[ReaderOrder[j]] # "unspawned"]

\* `let stream = Cell(listener.accept()); do spawntask_immediately { ... }`:
\* the accepted stream is moved into a new task, which runs at once, takes
\* the stream and calls read on it with a buffer of one byte, where it is
\* suspended
spawntask_immediately(t, s) ==
  /\ Free(t)
  /\ ~KeepsStreams
  /\ t \notin Readers
  /\ Owns(t, s) /\ s.side = "s"
  /\ \E r \in Readers : pc[r] = "unspawned"
  /\ LET r == NextReader
     IN /\ conns' = SetEnd(conns, s, [EndOf(conns, s) EXCEPT !.owner = r])
        /\ Park(r, [op |-> "read", s |-> s, n |-> 1])
  /\ UNCHANGED <<program, last, loop, listeners, graces, issued, started,
                 sigBalance>>

PeerClosed(cs, s) == EndOf(cs, Peer(s)).st = "closed"

\* Reader::read(buf) with a buffer of n bytes: asks the backend stream to
\* read; the task is suspended until data, end of file or an error arrives
read(t, s, n) ==
  /\ Free(t)
  /\ KeepsStreams
  /\ Owns(t, s)
  /\ Park(t, [op |-> "read", s |-> s, n |-> n])
  /\ UNCHANGED <<program, last, loop, listeners, conns, graces, issued, started, sigBalance>>

\* the backend completes the read and read() maps its result
read_resume(t, trap) ==
  /\ last = NoCall
  /\ pc[t] = "parked" /\ pending[t].op = "read"
  /\ LET s == pending[t].s
         n == pending[t].n
         e == EndOf(conns, s)
         pre == [s |-> s, inbuf |-> e.inbuf,
                 peerWrote |-> EndOf(conns, Peer(s)).wrote,
                 peerClosed |-> PeerClosed(conns, s), eof |-> e.eof,
                 room |-> n > 0, st |-> e.st, owner |-> e.owner,
                 connected |-> s \in issued]
     IN \/ /\ e.inbuf # <<>> \/ PeerClosed(conns, s)
           /\ LET bytes_read == rtio_read(e, n)
                  k == IF bytes_read.ok THEN bytes_read.val ELSE 0
                  e1 == [e EXCEPT !.inbuf = SubSeqFrom(@, k),
                                  !.eof = @ \/ ~bytes_read.ok]
                  fin == Finish(t, "read",
                                pre @@ [buf |-> SubSeqTo(e.inbuf, k),
                                        after |-> SubSeqTo(e.inbuf, k)
                                                    \o SubSeqFrom(BufInit(n), k)],
                                trap, bytes_read, read_match(bytes_read))
              IN Complete(t, fin, listeners, SetEnd(conns, s, e1), {})
        \/ /\ ~PeerClosed(conns, s)
           /\ LET bytes_read == Err(IoError(ConnectionReset, "read"))
                  fin == Finish(t, "read",
                                pre @@ [buf |-> <<>>, after |-> BufInit(n)],
                                trap, bytes_read, read_match(bytes_read))
              IN Complete(t, fin, listeners, conns, {})
  /\ UNCHANGED <<program, graces, started>>

\* RtioTcpStream::write of the one-byte buffer [b] on endpoint s, and what
\* it leaves the connections as: buffered for an open peer; once the peer
\* has closed, accepted for a while and then refused with ConnectionReset
\* or BrokenPipe, whichever the platform reports
rtio_write(cs, s, b, g) ==
  LET e == EndOf(cs, s)
      p == EndOf(cs, Peer(s))
  IN IF ~PeerClosed(cs, s)
     THEN {[res |-> Ok(Unit), g |-> g,
            cs |-> SetEnd(SetEnd(cs, s, [e EXCEPT !.wrote = Append(@, b)]),
                          Peer(s), [p EXCEPT !.inbuf = Append(@, b)])]}
     ELSE {[res |-> Err(IoError(k, "write")), g |-> g, cs |-> cs] :
             k \in {ConnectionReset, BrokenPipe}}
          \cup (IF g < MaxGrace
                THEN {[res |-> Ok(Unit), g |-> g + 1, cs |-> cs]}
                ELSE {})

CanWrite(s) ==
  PeerClosed(conns, s) \/ Len(EndOf(conns, s).wrote) < MaxWrites

\* Writer::write(buf) called: asks the backend stream to write the one-byte
\* buffer [b]; the task is suspended until the backend reports
write_call(t, s, b, scope) ==
  /\ Owns(t, s)
  /\ CanWrite(s)
  /\ Park(t, [op |-> "write", s |-> s, b |-> b, scope |-> scope])
  /\ UNCHANGED <<program, last, loop, listeners, conns, graces, issued, started, sigBalance>>

\* the backend completes the write and write() maps its result
write_done(t, s, b, trap, scope) ==
  /\ \E w \in rtio_write(conns, s, b, graces) :
       LET pre == [s |-> s, b |-> b, peerClosed |-> PeerClosed(conns, s),
                   scope |-> scope, st |-> EndOf(conns, s).st,
                   owner |-> EndOf(conns, s).owner, connected |-> s \in issued]
       IN /\ Complete(t, Finish(t, "write", pre, trap, w.res, write_match(w.res)),
                      listeners, w.cs, {})
          /\ graces' = w.g
  /\ UNCHANGED <<program, started>>

\* Writer::write(buf) with the one-byte buffer of the task's program; in the
\* interleaved program a connector spawns the next one, which calls connect,
\* before it writes (`connect(i + 1, addr)` before `stream.write`)
write(t, s) ==
  /\ Free(t)
  /\ ~HasToConnect(t)
  /\ write_call(t, s, ByteOf(program, t), "free")

\* the handlers a write may complete under: in the write_close loop the
\* trap of the loop, elsewhere whatever the caller installed
WriteTraps(scope) == IF scope = "write_close" THEN {WriteCloseTrap} ELSE Traps

\* the write of task t completes
write_resume(t, trap) ==
  /\ last = NoCall
  /\ pc[t] = "parked" /\ pending[t].op = "write"
  /\ trap \in WriteTraps(pending[t].scope)
  /\ write_done(t, pending[t].s, pending[t].b, trap, pending[t].scope)

\* an eof() that answers from what the stream has seen
eof_answers(e) == [fails |-> FALSE, ret |-> e.eof]

\* Reader::eof for TcpStream: `fail!()`
eof_body(e) == [fails |-> TRUE, ret |-> NoRet]

\* a flush() that does nothing and returns
flush_returns(e) == [fails |-> FALSE, ret |-> Unit]

\* Writer::flush for TcpStream: `fail!()`
flush_body(e) == [fails |-> TRUE, ret |-> NoRet]

\* a call of eof() or flush() on stream s, whose body gave out: no backend
\* operation, no signal; a task that fails releases everything it owns
unimplemented(t, s, op, trap, out) ==
  /\ Free(t)
  /\ KeepsStreams
  /\ Owns(t, s)
  /\ LET e == EndOf(conns, s)
         end == IF out.fails THEN DropAll(listeners, conns, t)
                ELSE [ls |-> listeners, cs |-> conns]
     IN /\ last' = [task |-> t, op |-> op,
                    pre |-> [s |-> s, st |-> e.st, eof |-> e.eof,
                             peerClosed |-> PeerClosed(conns, s)],
                    trap |-> trap, res |-> NoBackendCall, raised |-> <<>>,
                    handled |-> 0, returned |-> ~out.fails, ret |-> out.ret]
        /\ pc' = [pc EXCEPT ![t] = IF out.fails THEN "failed" ELSE "run"]
        /\ listeners' = end.ls
        /\ conns' = end.cs
  /\ UNCHANGED <<program, pending, loop, graces, issued, started, sigBalance>>

\* Reader::eof
eof(t, s, trap) == unimplemented(t, s, "eof", trap, eof_body(EndOf(conns, s)))

\* Writer::flush
flush(t, s, trap) == unimplemented(t, s, "flush", trap, flush_body(EndOf(conns, s)))

\* the owning scope of a TcpStream ends: the backend stream is closed
drop_stream(t, s) ==
  /\ Free(t)
  /\ KeepsStreams
  /\ Owns(t, s)
  /\ conns' = CloseEnd(conns, s)
  /\ UNCHANGED <<program, last, pc, pending, loop, listeners, graces, issued, started,
                 sigBalance>>

(* ---------------------------- TcpListener ------------------------------ *)

\* TcpListener::bind(addr): borrows the backend and asks it to bind
bind(t, addr, trap) ==
  /\ last = NoCall /\ pc[t] = "start"
  /\ LET listener == tcp_bind(listeners, addr)
         ls == IF listener.ok
               THEN Append(listeners, [addr |-> addr, open |-> TRUE,
                                       owner |-> "nobody", backlog |-> <<>>])
               ELSE listeners
         fin == Finish(t, "bind", [addr |-> addr], trap, listener,
                       bind_match(listener))
         held == fin.returned /\ fin.ret.some /\ listener.ok
                 /\ fin.ret.val = [rtlistener |-> listener.val]
         ls1 == IF ~listener.ok THEN ls
                ELSE IF held THEN [ls EXCEPT ![listener.val].owner = t]
                ELSE CloseListener(ls, conns, listener.val).ls
     IN Complete(t, fin, ls1, conns, {})
  /\ UNCHANGED <<program, graces, started>>

OwnsListener(t, l) ==
  l \in 1..Len(listeners) /\ listeners[l].open /\ listeners[l].owner = t

\* task t was spawned with a reference to a listener of another task and has
\* not called accept yet
Guest(t, l) ==
  /\ last = NoCall /\ pc[t] = "guest"
  /\ l \in 1..Len(listeners) /\ listeners[l].open

\* the tasks suspended in accept on listener l
AcceptingOn(l) ==
  {u \in Tasks : pc[u] = "parked" /\ pending[u].op = "accept" /\ pending[u].l = l}

\* Listener::accept: asks the backend listener to accept; the task is
\* suspended until a connection arrives or the backend reports an error
accept(t, l) ==
  /\ \/ Free(t) /\ OwnsListener(t, l)
     \/ Guest(t, l)
  /\ ~HasToSpawn(t)
  /\ Park(t, [op |-> "accept", l |-> l, since |-> started])
  /\ UNCHANGED <<program, last, loop, listeners, conns, graces, issued, started, sigBalance>>

\* a lost wake-up: a waiting connection is handed over only if its connect
\* was under way when accept was called; a task already suspended in
\* accept when the connect is made is never resumed
accept_delivers_late(t, trap, pre) ==
  /\ listeners[pre.l].backlog # <<>>
  /\ conns[Head(listeners[pre.l].backlog)].ticket <= pre.since
  /\ LET rtstream == rtio_accept(listeners, pre.l)
         ls == [listeners EXCEPT ![pre.l].backlog =
                 rtio_dequeue(@, rtstream.val.conn)]
         cs == SetEnd(conns, rtstream.val,
                      [EndOf(conns, rtstream.val) EXCEPT !.st = "open"])
     IN Complete(t, Finish(t, "accept", pre, trap, rtstream,
                           accept_match(rtstream)),
                 ls, cs, {rtstream.val})
  /\ UNCHANGED graces

\* a connection is waiting: the backend hands its server end to the accept
\* of task t, and accept() maps the result
accept_delivers(t, trap, pre) ==
  /\ listeners[pre.l].backlog # <<>>
  /\ LET rtstream == rtio_accept(listeners, pre.l)
         ls == [listeners EXCEPT ![pre.l].backlog =
                 rtio_dequeue(@, rtstream.val.conn)]
         cs == SetEnd(conns, rtstream.val,
                      [EndOf(conns, rtstream.val) EXCEPT !.st = "open"])
     IN Complete(t, Finish(t, "accept", pre, trap, rtstream,
                           accept_match(rtstream)),
                 ls, cs, {rtstream.val})
  /\ UNCHANGED graces

\* the backend completes the accept and accept() maps its result
accept_resume(t, trap) ==
  /\ last = NoCall
  /\ pc[t] = "parked" /\ pending[t].op = "accept"
  /\ LET l == pending[t].l
         pre == [l |-> l, listener |-> listeners[l], issued |-> issued,
                 waiting |-> AcceptingOn(l) \ {t}, since |-> pending[t].since]
     IN \/ accept_delivers(t, trap, pre)
        \/ /\ LET rtstream == Err(IoError(OtherIoError, "accept"))
              IN Complete(t, Finish(t, "accept", pre, trap, rtstream,
                                    accept_match(rtstream)),
                          listeners, conns, {})
           /\ UNCHANGED graces
  /\ UNCHANGED <<program, started>>

\* the owning scope of a TcpListener ends: the backend listener is closed
drop_listener(t, l) ==
  /\ Free(t)
  /\ ~HasToSpawn(t)
  /\ OwnsListener(t, l)
  /\ LET r == CloseListener(listeners, conns, l)
     IN listeners' = r.ls /\ conns' = r.cs
  /\ UNCHANGED <<program, last, pc, pending, loop, graces, issued, started,
                 sigBalance>>

(* ------------------ test::write_close, the writing loop ---------------- *)

\* the task enters `loop { ... }` with the stream it accepted
loop_enter(t, s) ==
  /\ Free(t)
  /\ KeepsStreams
  /\ Owns(t, s)
  /\ loop' = [loop EXCEPT ![t] = s]
  /\ UNCHANGED <<program, last, pc, pending, listeners, conns, graces, issued, started,
                 sigBalance>>

\* one iteration begins: stream.write(buf) is called under the io_error trap
\* whose handler asserts the kind and sets stop; when the write completes
\* (write_resume) the loop breaks if stop was set
loop_write(t) ==
  /\ Running(t) /\ loop[t] # NoHandle
  /\ write_call(t, loop[t], LoopByte, "write_close")

\* the task's closure returns: the task ends, and everything it still owns
\* goes out of scope
task_exit(t) ==
  /\ Free(t)
  /\ ~HasToSpawn(t)
  /\ ~HasToConnect(t)
  /\ pc' = [pc EXCEPT ![t] = "done"]
  /\ LET r == DropAll(listeners, conns, t)
     IN listeners' = r.ls /\ conns' = r.cs
  /\ UNCHANGED <<program, last, pending, loop, graces, issued, started,
                 sigBalance>>

\* the completed call returns to its caller (or, the task having failed,
\* the scheduler moves on): its outcome has been consumed
call_returns ==
  /\ last # NoCall
  /\ last' = NoCall
  /\ UNCHANGED <<program, pc, pending, loop, listeners, conns, graces, issued,
                 started, sigBalance>>

(* --------------------------- the state machine -------------------------- *)

Init ==
  /\ program \in Programs
  /\ pc = [t \in Tasks |-> IF t \in Readers THEN "unspawned" ELSE "start"]
  /\ pending = [t \in Tasks |-> NoCall]
  /\ loop = [t \in Tasks |-> NoHandle]
  /\ last = NoCall
  /\ listeners = <<>>
  /\ conns = <<>>
  /\ graces = 0
  /\ issued = {}
  /\ started = 0
  /\ sigBalance = 0

Next ==
  \/ \E t \in Connectors, addr \in Addrs : connect(t, addr)
  \/ \E t \in Tasks, trap \in ConnectTraps : connect_resume(t, trap)
  \/ \E t \in Acceptors, s \in StreamHandles(conns), n \in BufLens :
       read(t, s, n)
  \/ \E t \in Tasks, trap \in ReadTraps : read_resume(t, trap)
  \/ \E t \in Connectors, s \in StreamHandles(conns) : write(t, s)
  \/ \E t \in Tasks, trap \in Traps \cup {WriteCloseTrap} : write_resume(t, trap)
  \/ \E t \in Acceptors, s \in StreamHandles(conns), trap \in Traps : eof(t, s, trap)
  \/ \E t \in Acceptors, s \in StreamHandles(conns), trap \in Traps :
       flush(t, s, trap)
  \/ \E t \in Acceptors, s \in StreamHandles(conns) : drop_stream(t, s)
  \/ \E t \in Acceptors, addr \in Addrs, trap \in BindTraps : bind(t, addr, trap)
  \/ \E t \in Tasks, l \in 1..Len(listeners) : accept(t, l)
  \/ \E t \in Tasks, s \in StreamHandles(conns) : spawntask_immediately(t, s)
  \/ \E t \in Tasks, trap \in Traps : accept_resume(t, trap)
  \/ \E t \in Tasks, l \in 1..Len(listeners) : drop_listener(t, l)
  \/ \E t \in Acceptors, s \in StreamHandles(conns) : loop_enter(t, s)
  \/ \E t \in Tasks : loop_write(t)
  \/ \E t \in Tasks : task_exit(t)
  \/ call_returns

Spec == Init /\ [][Next]_vars

\* The last connector is not a connector here: it is a second task calling
\* accept on the acceptor's listener, concurrently with the acceptor.
Guests == {ConnectorOrder[Len(ConnectorOrder)]}

InitShared ==
  /\ program \in Programs
  /\ pc = [t \in Tasks |-> IF t \in Readers THEN "unspawned"
                           ELSE IF t \in Guests THEN "guest" ELSE "start"]
  /\ pending = [t \in Tasks |-> NoCall]
  /\ loop = [t \in Tasks |-> NoHandle]
  /\ last = NoCall
  /\ listeners = <<>>
  /\ conns = <<>>
  /\ graces = 0
  /\ issued = {}
  /\ started = 0
  /\ sigBalance = 0

SharedSpec == InitShared /\ [][Next]_vars

\* The scheduler runs every task that can run: a completed call returns, a
\* task in the write_close loop gets to issue its next write, and the
\* backend completes it.
FairSpec ==
  /\ Spec
  /\ WF_vars(call_returns)
  /\ \A t \in Acceptors :
       /\ SF_vars(loop_write(t))
       /\ SF_vars(write_resume(t, WriteCloseTrap))

(* ------------- test::smoke_test, test::multiple_connect_serial --------- *)

\* The serial tests install no handler.  Their first task binds the test
\* address and then, once (smoke_test) or in a loop (multiple_connect_serial),
\* accepts, reads once into a buffer of one byte and lets the stream go;
\* then it ends.  For each connection the connecting side connects to the
\* address, writes [99] once and lets the stream go.

\* nothing has been read from stream s yet
Unread(s) ==
  /\ ~EndOf(conns, s).eof
  /\ EndOf(conns, Peer(s)).wrote = <<>> \/ EndOf(conns, s).inbuf # <<>>

\* nothing has been written yet: no byte left on stream s, and none handed
\* to the backend after the peer had closed
Unwritten(s) == EndOf(conns, s).wrote = <<>> /\ graces = 0

\* the connections accepted so far
Accepted == {h \in issued : h.side = "s"}

\* the steps of the first task of the serial tests
serial_listener(t) ==
  \/ bind(t, TestAddr, NoTrap)
  \/ \E l \in 1..Len(listeners) :
       /\ \A s \in StreamHandles(conns) : ~Owns(t, s)
       /\ Cardinality(Accepted) < Len(ConnectorOrder)
       /\ accept(t, l)
  \/ accept_resume(t, NoTrap)
  \/ \E s \in StreamHandles(conns) : Unread(s) /\ read(t, s, 1)
  \/ read_resume(t, NoTrap)
  \/ \E s \in StreamHandles(conns) : ~Unread(s) /\ drop_stream(t, s)
  \/ /\ \A s \in StreamHandles(conns) : ~Owns(t, s)
     /\ Accepted # {}
     /\ task_exit(t)

\* the steps of the connecting side for one connection
serial_connector(u) ==
  \/ connect(u, TestAddr)
  \/ connect_resume(u, NoTrap)
  \/ \E s \in StreamHandles(conns) : Unwritten(s) /\ write(u, s)
  \/ write_resume(u, NoTrap)
  \/ (\E s \in StreamHandles(conns) : Owns(u, s) /\ ~Unwritten(s)) /\ task_exit(u)

serial_tests ==
  \/ \E t \in Acceptors : serial_listener(t)
  \/ \E u \in Connectors : serial_connector(u)
  \/ call_returns

InitSerial == Init /\ program = "serial"

\* what the scheduler and the backend's event loop see to for the first
\* task: it runs when it can, a waiting connection is handed to its accept,
\* and its read gets the data or the end of the stream.  That the backend
\* fails an accept or a read is possible, and nothing it is bound to do.
listener_served(t) ==
  /\ serial_listener(t)
  /\ last' # NoCall /\ last'.op \in {"accept", "read"} => ~NonEofFailure(last'.res)

\* The worker runs another task whenever one suspends, and the backend's
\* event loop serves what is pending: a completed call returns, a task that
\* can run does, and a pending operation is completed.
SchedSpec ==
  /\ InitSerial /\ [][serial_tests]_vars
  /\ WF_vars(call_returns)
  /\ \A t \in Acceptors : WF_vars(listener_served(t))
  /\ \A u \in Connectors : WF_vars(serial_connector(u))

(* ------------------------------ the claims ----------------------------- *)

Completed(op) == last # NoCall /\ last.op = op

\* the call recorded in last raised exactly the signal of condition cond
\* carrying the backend's error; under a handler for cond the handler ran
\* once, and if the handler returned the call returned None; if the call
\* returned at all, it returned None
RaisedAndNone(cond) ==
  /\ last.raised = <<Signal(cond, last.res.err)>>
  /\ last.returned => last.ret = None
  /\ last.trap[cond] # "none" => last.handled = 1
  /\ raise(last.trap[cond], last.res.err) = "resume" =>
       last.returned /\ last.handled = 1 /\ last.ret = None
  /\ raise(last.trap[cond], last.res.err) = "fail" => ~last.returned

\* C1: every TcpStream::connect whose tcp_connect fails with e raises
\* io_error with exactly e and returns None (the installed handler running
\* exactly once); where nothing listens e is ConnectionRefused; a successful
\* tcp_connect gives Some(stream) wrapping the backend stream, which the
\* caller then owns, and no signal.
C1_connect ==
  Completed("connect") =>
    /\ ~last.pre.listening =>
         ~last.res.ok /\ last.res.err.kind = ConnectionRefused
    /\ IF last.res.ok
       THEN /\ last.returned
            /\ last.ret = Some(TcpStream_new(last.res.val))
            /\ last.raised = <<>> /\ last.handled = 0
            /\ EndOf(conns, last.res.val).owner = last.task
       ELSE RaisedAndNone("io_error")

\* test::connect_error: nothing listens, the trap handler has run once and
\* connect has returned None
C1_witness ==
  /\ Completed("connect")
  /\ ~last.pre.listening
  /\ last.trap = ConnectErrorTrap
  /\ last.raised = <<Signal("io_error", IoError(ConnectionRefused, last.pre.addr))>>
  /\ last.handled = 1
  /\ last.ret = None

\* a read where the end of the stream has been reached: the peer has closed
\* and nothing it wrote is left unread, or end of file was reported before
AtEof(pre) == (pre.peerClosed /\ pre.inbuf = <<>>) \/ pre.eof

\* C2 as stated: once the peer has closed, every read returns None and
\* raises nothing.
C2_original ==
  Completed("read") /\ last.pre.peerClosed =>
    last.returned /\ last.ret = None /\ last.raised = <<>>

\* C2, amended: once the peer has closed and the bytes it wrote have all been
\* read, every read (the first, the second, any later one) returns None and
\* raises neither io_error nor read_error, whatever handlers are installed.
C2_eof_sticky ==
  Completed("read") /\ AtEof(last.pre) =>
    /\ last.res = Err(IoError(EndOfFile, "eof"))
    /\ last.returned /\ last.ret = None
    /\ last.raised = <<>> /\ last.handled = 0

\* test::read_eof_twice: a read on a stream that has reported end of file
\* before returns None again, here with handlers installed
C2_witness ==
  /\ Completed("read")
  /\ last.pre.eof
  /\ last.trap = BothTraps
  /\ last.ret = None
  /\ last.raised = <<>>

\* C3: every read whose backend read fails with a kind other than EndOfFile
\* raises read_error with that error and then returns None.
C3_read_error ==
  Completed("read") /\ NonEofFailure(last.res) => RaisedAndNone("read_error")

\* a read failed with ConnectionReset, the read_error handler ran and read
\* returned None
C3_witness ==
  /\ Completed("read")
  /\ NonEofFailure(last.res)
  /\ last.trap.read_error = "resume"
  /\ last.raised = <<Signal("read_error", last.res.err)>>
  /\ last.handled = 1
  /\ last.ret = None

\* C4: a write the backend accepts raises nothing and returns nothing; a
\* write that fails with e raises io_error with exactly e.
C4_write ==
  Completed("write") =>
    IF last.res.ok
    THEN last.returned /\ last.ret = Unit /\ last.raised = <<>>
    ELSE /\ last.raised = <<Signal("io_error", last.res.err)>>
         /\ last.returned => last.ret = Unit
         /\ last.trap.io_error # "none" => last.handled = 1

\* a write to a closed peer failed and io_error carried the backend's error
\* to the handler
C4_witness ==
  /\ Completed("write")
  /\ ~last.res.ok
  /\ last.pre.peerClosed
  /\ last.trap.io_error = "resume"
  /\ last.raised = <<Signal("io_error", last.res.err)>>
  /\ last.returned

\* C5: every TcpListener::bind whose tcp_bind succeeds returns Some(listener)
\* wrapping the backend listener, bound at addr and owned by the caller, and
\* raises nothing; one that fails with e (PermissionDenied on the privileged
\* port) raises io_error with e, the handler runs once, and it returns None.
C5_bind ==
  Completed("bind") =>
    /\ last.pre.addr = PrivAddr =>
         ~last.res.ok /\ last.res.err.kind = PermissionDenied
    /\ IF last.res.ok
       THEN /\ last.returned
            /\ last.ret = Some([rtlistener |-> last.res.val])
            /\ last.raised = <<>> /\ last.handled = 0
            /\ listeners[last.res.val].open
            /\ listeners[last.res.val].addr = last.pre.addr
            /\ listeners[last.res.val].owner = last.task
       ELSE RaisedAndNone("io_error")

\* test::bind_error: the privileged port is refused, the trap handler has
\* run once and bind has returned None
C5_witness ==
  /\ Completed("bind")
  /\ last.pre.addr = PrivAddr
  /\ last.trap = BindErrorTrap
  /\ last.raised = <<Signal("io_error", IoError(PermissionDenied, PrivAddr))>>
  /\ last.handled = 1
  /\ last.ret = None

\* C6: every accept the backend completes returns Some of a fresh TcpStream
\* that owns the newly accepted backend stream, distinct from every stream
\* returned before, the listener staying the open listener it was; every
\* accept the backend fails raises io_error with the backend's error and
\* returns None.
C6_accept ==
  Completed("accept") =>
    IF last.res.ok
    THEN /\ last.returned
         /\ last.ret = Some(TcpStream_new(last.res.val))
         /\ last.raised = <<>> /\ last.handled = 0
         /\ last.ret.val.rtstream \notin last.pre.issued
         /\ last.ret.val.rtstream \in issued
         /\ EndOf(conns, last.res.val).st = "open"
         /\ EndOf(conns, last.res.val).owner = last.task
         /\ listeners[last.pre.l].open
         /\ listeners[last.pre.l].addr = last.pre.listener.addr
         /\ listeners[last.pre.l].owner = last.task
    ELSE /\ RaisedAndNone("io_error")
         /\ last.returned => listeners[last.pre.l] = last.pre.listener

\* an accept returns a second stream, after an earlier accept returned one
C6_witness ==
  /\ Completed("accept")
  /\ last.res.ok
  /\ \E h \in last.pre.issued : h.side = "s" /\ h # last.ret.val.rtstream
  /\ listeners[last.pre.l].open

\* C7: every backend failure other than end of file is reported by exactly
\* one signal, raised in the call it occurred in and carrying its error, and
\* nothing else is ever raised: each completed call has the one result of
\* its one backend operation, and over the whole run the signals raised are
\* as many as the non-EOF failures.
C7_reported_once ==
  /\ sigBalance = 0
  /\ last # NoCall /\ last.op \in {"connect", "bind", "accept", "read", "write"} =>
       /\ Len(last.raised) = IF NonEofFailure(last.res) THEN 1 ELSE 0
       /\ \A i \in 1..Len(last.raised) : last.raised[i].err = last.res.err

\* a failed write is reported once, in a run where a read has met end of
\* file before (which raised nothing)
C7_witness ==
  /\ Completed("write")
  /\ NonEofFailure(last.res)
  /\ Len(last.raised) = 1
  /\ \E h \in StreamHandles(conns) : EndOf(conns, h).eof

\* the bytes a successful read hands over are the next bytes its peer, the
\* other end of the same connection, wrote
ReadsPeerBytes ==
  Completed("read") /\ last.res.ok =>
    LET k == last.res.val
        consumed == Len(last.pre.peerWrote) - Len(last.pre.inbuf)
    IN /\ last.ret = Some(k)
       /\ k = Len(last.pre.buf)
       /\ last.pre.room => k >= 1
       /\ last.pre.buf = SubSeq(last.pre.peerWrote, consumed + 1, consumed + k)

\* C8: no cross-delivery: an accepted stream is the server end of the
\* connection accepted, a connected stream the client end of the caller's
\* own connection, each connector writes on its own connection only, and
\* every successful read yields exactly the next bytes written at the other
\* end of the same connection, the connector's own byte; a single byte 99
\* is read into a buffer with room for it, when the backend read succeeds,
\* as Some(1) with buf[0] = 99.
C8_no_cross_delivery ==
  /\ ReadsPeerBytes
  /\ Completed("read") /\ last.res.ok /\ last.pre.s.side = "s" =>
       \A i \in 1..Len(last.pre.buf) :
         last.pre.buf[i] = ByteOf(program, conns[last.pre.s.conn].by)
  /\ Completed("read") /\ last.res.ok /\ last.pre.room
       /\ last.pre.peerWrote = <<99>> /\ last.pre.inbuf = <<99>> =>
       /\ last.ret = Some(1) /\ last.pre.buf = <<99>>
       /\ last.pre.after[1] = 99
  /\ Completed("accept") /\ last.res.ok =>
       /\ last.ret = Some(TcpStream_new(last.res.val))
       /\ \A h \in StreamHandles(conns) :
            h.side = "s" /\ EndOf(conns, h).owner = last.task =>
              h \in issued /\ EndOf(conns, h).st = "open"
  /\ Completed("connect") /\ last.res.ok =>
       /\ last.ret = Some(TcpStream_new(last.res.val))
       /\ conns[last.res.val.conn].by = last.task
  /\ \A c \in 1..Len(conns) :
       /\ conns[c].c.owner \in {conns[c].by, "nobody"}
       /\ \A i \in 1..Len(conns[c].c.wrote) :
            conns[c].c.wrote[i] = ByteOf(program, conns[c].by)

\* test::multiple_connect_interleaved_greedy_schedule: two connections, both
\* written to after both connects, and the read on the second one accepted
\* yields its own connector's byte
C8_witness ==
  /\ Completed("read")
  /\ last.res.ok
  /\ Len(conns) = 2
  /\ conns[1].c.wrote # <<>> /\ conns[2].c.wrote # <<>>
  /\ conns[1].by # conns[2].by
  /\ last.pre.s = Handle(2, "s")
  /\ program = "interleaved"
  /\ conns[1].c.wrote = <<ByteOf(program, conns[1].by)>>
  /\ last.pre.buf = <<ByteOf(program, conns[2].by)>>
  /\ last.pre.buf # conns[1].c.wrote

\* a write of the write_close loop has failed with ConnectionReset or
\* BrokenPipe, its handler has set stop and the loop of task t has ended
LoopBroken(t) ==
  /\ Completed("write")
  /\ last.task = t
  /\ last.pre.scope = "write_close"
  /\ last.returned
  /\ Len(last.raised) = 1
  /\ last.raised[1].cond = "io_error"
  /\ last.raised[1].err.kind \in {ConnectionReset, BrokenPipe}
  /\ loop[t] = NoHandle

\* C9: once the peer has closed, the write_close loop eventually gets
\* io_error raised, of kind ConnectionReset or BrokenPipe and no other, and
\* ends at that first signal; a write that raises nothing leaves it looping.
C9_write_close ==
  /\ \A t \in Acceptors :
       (loop[t] # NoHandle /\ PeerClosed(conns, loop[t])) ~> LoopBroken(t)
  /\ [](Completed("write") /\ last.pre.scope = "write_close" =>
          IF last.raised = <<>>
          THEN last.res.ok /\ loop[last.task] = last.pre.s
          ELSE last.pre.peerClosed /\ LoopBroken(last.task))

\* the loop has written to a peer that had closed, the backend has accepted
\* a write after the close, and a later write has ended the loop
C9_witness ==
  /\ \E t \in Acceptors : LoopBroken(t)
  /\ graces > 0

\* C10: accept returns the connections in the order in which they
\* completed: no connection that completed before the one returned is still
\* waiting; the stream returned is that connection's, and reading it yields
\* the byte its connector wrote.
C10_serial ==
  /\ Completed("accept") /\ last.res.ok =>
       /\ last.ret = Some(TcpStream_new(last.res.val))
       /\ last.res.val.side = "s"
       /\ \A c \in 1..Len(conns) :
            conns[c].s.st = "queued" => c > last.res.val.conn
  /\ Completed("read") /\ last.res.ok /\ last.pre.s.side = "s" =>
       LET w == conns[last.pre.s.conn].c.wrote
           consumed == Len(w) - Len(last.pre.inbuf)
       IN /\ last.ret = Some(last.res.val)
          /\ Len(last.pre.buf) = last.res.val
          /\ last.pre.buf = SubSeq(w, consumed + 1, consumed + last.res.val)

\* the interleaved test with two connections: both were accepted, in the
\* order in which they completed, the read on the first has yielded the
\* byte 0 of the first connector, and the read on the second now yields
\* the byte 1 of the second
C10_witness ==
  /\ program = "interleaved"
  /\ Completed("read") /\ last.res.ok
  /\ last.pre.s = Handle(2, "s")
  /\ last.pre.buf = <<ByteOf(program, ConnectorOrder[2])>>
  /\ conns[2].by = ConnectorOrder[2]
  /\ conns[1].by = ConnectorOrder[1]
  /\ Handle(1, "s") \in issued
  /\ conns[1].c.wrote = <<ByteOf(program, ConnectorOrder[1])>>
  /\ conns[1].s.inbuf = <<>>
  /\ ~conns[1].s.eof

\* the server end of connection c has been returned by an accept
Delivered(c) == Handle(c, "s") \in issued

\* the positions of connection c in the backlog of its listener
InBacklog(c) ==
  {i \in 1..Len(listeners[conns[c].lis].backlog) :
     listeners[conns[c].lis].backlog[i] = c}

\* C11: with several tasks suspended in accept on one listener, a connection
\* is returned by one accept only (the stream returned was never returned
\* before, and is the one taken off the backlog), and no completed
\* connection is lost: it waits in the backlog once, or has been delivered,
\* or was closed with its listener.
C11_one_winner ==
  /\ Completed("accept") /\ last.res.ok =>
       /\ last.ret = Some(TcpStream_new(last.res.val))
       /\ last.res.val \notin last.pre.issued
       /\ last.res.val.conn = Head(last.pre.listener.backlog)
       /\ InBacklog(last.res.val.conn) = {}
       /\ \A u \in last.pre.waiting :
            pc[u] = "parked" /\ pending[u].op = "accept"
  /\ \A c \in 1..Len(conns) :
       /\ conns[c].s.st = "queued" =>
            Cardinality(InBacklog(c)) = 1 /\ ~Delivered(c)
       /\ conns[c].s.st = "open" =>
            Delivered(c) /\ InBacklog(c) = {} /\ conns[c].s.owner \in Tasks
       /\ conns[c].s.st = "closed" =>
            InBacklog(c) = {}
            /\ (Delivered(c) \/ ~listeners[conns[c].lis].open)

\* two tasks were suspended in accept on the listener when the connection
\* arrived; one accept has returned it, the other is still waiting
C11_witness ==
  /\ Completed("accept")
  /\ last.res.ok
  /\ last.pre.waiting # {}
  /\ \E u \in last.pre.waiting : pc[u] = "parked"
  /\ Len(conns) = 1

\* the condition an operation is to report its failures with
CondOf(op) == IF op = "read" THEN "read_error" ELSE "io_error"

\* the backend objects task t owns
OwnedBy(t) ==
  [streams |-> {h \in StreamHandles(conns) : EndOf(conns, h).owner = t},
   listeners |-> {l \in 1..Len(listeners) : listeners[l].owner = t}]

\* task t fails in this step
Fails(t) == pc[t] # "failed" /\ pc'[t] = "failed"

\* C12: a non-EOF failure in a call made with no handler for its condition
\* installed ends the calling task at the raise: the call returns nothing
\* (not None), the task is failed and never runs again; the step leaves
\* every other task where it was, with the calls it is suspended in and the
\* streams and listeners it owns as they were.
C12_fatal_to_task_only ==
  /\ [](last # NoCall /\ last.op \in {"connect", "bind", "accept", "read", "write"}
          /\ NonEofFailure(last.res) /\ last.trap[CondOf(last.op)] = "none" =>
            /\ ~last.returned /\ last.ret = NoRet
            /\ last.handled = 0
            /\ pc[last.task] = "failed")
  /\ [][\A t \in Tasks :
         /\ pc[t] = "failed" => pc'[t] = "failed"
         /\ Fails(t) =>
              \A u \in Tasks \ {t} :
                /\ pc'[u] = pc[u]
                /\ pending'[u] = pending[u]
                /\ loop'[u] = loop[u]
                /\ \A h \in OwnedBy(u).streams : EndOf(conns', h) = EndOf(conns, h)
                /\ \A l \in OwnedBy(u).listeners : listeners'[l] = listeners[l]]_vars

\* the reader of the first accepted stream has failed at an unhandled raise;
\* the acceptor and its listener were left as they were, and a later accept
\* has returned the next connection
C12_witness ==
  /\ \E r \in Readers : pc[r] = "failed"
  /\ Completed("accept")
  /\ last.task \in Acceptors
  /\ last.res.ok
  /\ conns[last.res.val.conn].ticket > last.pre.since
  /\ listeners[last.pre.l].open
  /\ pc[last.task] = "run"

\* task t has ended: it returned, or it failed
Ended(t) == pc[t] \in {"done", "failed"}

\* task t ends in this step
Ends(t) == ~Ended(t) /\ pc'[t] \in {"done", "failed"}

\* C13: every open stream and every open listener belongs to a task that
\* has not ended, so none stays open after its owner has ended; the step in
\* which a task ends, by returning or by failing at an unhandled raise,
\* closes every stream and listener the task owned; the address of a closed
\* listener is free again: it can be bound, and nothing answers there.
C13_release ==
  /\ [](/\ \A h \in StreamHandles(conns) :
            EndOf(conns, h).st = "open" =>
              EndOf(conns, h).owner \in Tasks /\ ~Ended(EndOf(conns, h).owner)
         /\ \A l \in 1..Len(listeners) :
            /\ listeners[l].open =>
                 listeners[l].owner \in Tasks /\ ~Ended(listeners[l].owner)
            /\ ~listeners[l].open
                 /\ OpenListenersAt(listeners, listeners[l].addr) = {} =>
                 /\ tcp_bind(listeners, listeners[l].addr).ok
                 /\ ~tcp_connect(listeners, conns, listeners[l].addr).ok)
  /\ [][\A t \in Tasks :
         Ends(t) =>
           /\ \A h \in OwnedBy(t).streams : EndOf(conns', h).st = "closed"
           /\ \A l \in OwnedBy(t).listeners : ~listeners'[l].open]_vars

\* one task has returned and another has failed at an unhandled raise, both
\* having owned a stream of the connection, the first also the listener;
\* nothing is open any more
C13_witness ==
  /\ \E t, u \in Tasks : pc[t] = "done" /\ pc[u] = "failed"
  /\ Len(conns) >= 1 /\ Len(listeners) >= 1
  /\ Handle(1, "c") \in issued /\ Handle(1, "s") \in issued
  /\ \A h \in StreamHandles(conns) : EndOf(conns, h).st = "closed"
  /\ \A l \in 1..Len(listeners) : ~listeners[l].open

\* C14: a connect, bind or accept call returns Some exactly when no signal
\* was raised in it, and then its backend operation returned Ok and the
\* value wraps exactly the backend object; at all times, every stream a
\* task holds was returned by a connect or accept whose backend operation
\* succeeded, and every listener a task holds exists in the backend.
C14_construction_xor_error ==
  /\ last # NoCall /\ last.op \in {"connect", "bind", "accept"} =>
       /\ (last.returned /\ last.ret.some) <=> (last.raised = <<>>)
       /\ last.raised = <<>> <=> last.res.ok
       /\ last.returned /\ last.ret.some =>
            last.ret.val = IF last.op = "bind"
                           THEN [rtlistener |-> last.res.val]
                           ELSE TcpStream_new(last.res.val)
  /\ issued \subseteq StreamHandles(conns)
  /\ \A h \in StreamHandles(conns) :
       EndOf(conns, h).owner \in Tasks => h \in issued
  /\ \A t \in Tasks : Ended(t) \/ pc[t] \in {"start", "unspawned"} =>
       OwnedBy(t) = [streams |-> {}, listeners |-> {}]

\* an accept has failed under a handler and returned None, in a run where
\* a stream had been constructed before; no stream came of the failure
C14_witness ==
  /\ Completed("accept")
  /\ ~last.res.ok
  /\ last.returned /\ last.ret = None
  /\ issued # {}
  /\ issued = last.pre.issued

\* C15: a connect, bind, accept or read in which a failure was raised and
\* whose handler returned, returns None: the handler's return resumes the
\* call after the raise, and what follows is `return None` in every Err arm;
\* no stream, listener or byte count comes of the call.
C15_handler_observes_only ==
  last # NoCall /\ last.op \in {"connect", "bind", "accept", "read"}
    /\ last.raised # <<>> /\ last.handled = Len(last.raised)
    /\ (\A i \in 1..Len(last.raised) :
          raise(last.trap[last.raised[i].cond], last.raised[i].err) = "resume") =>
      /\ last.returned
      /\ last.ret = None
      /\ Wrapped(last) = {}
      /\ last.op = "accept" => issued = last.pre.issued
      /\ last.op = "read" => last.pre.buf = <<>>
      /\ last.op = "bind" => OwnedBy(last.task).listeners = {}
      /\ last.op = "connect" => OwnedBy(last.task).streams = {}

\* a read failed, the read_error handler ran and returned, and read
\* returned None although bytes were waiting to be read
C15_witness ==
  /\ Completed("read")
  /\ last.raised # <<>>
  /\ last.handled = 1
  /\ last.returned
  /\ last.pre.inbuf # <<>>
  /\ last.ret = None

\* task t is suspended in accept
InAccept(t) == pc[t] = "parked" /\ pending[t].op = "accept"

\* task t is suspended in accept, no connection waiting, and task u is
\* suspended in a connect to the address task t accepts on
ConnectingTo(u, t) ==
  /\ pc[u] = "parked" /\ pending[u].op = "connect"
  /\ InAccept(t)
  /\ listeners[pending[t].l].backlog = <<>>
  /\ pending[u].addr = listeners[pending[t].l].addr

\* the connections before that of connector u have been dealt with
InTurn(u) ==
  \A i, j \in 1..Len(ConnectorOrder) :
    i < j /\ ConnectorOrder[j] = u => pc[ConnectorOrder[i]] = "done"

\* the accept of task t has returned the connection task u made
AcceptReturned(t, u) ==
  /\ Completed("accept") /\ last.task = t
  /\ last.res.ok
  /\ last.returned
  /\ last.ret = Some(TcpStream_new(last.res.val))
  /\ conns[last.res.val.conn].by = u
  /\ pc[t] = "run"

\* the backend has failed the accept of task t
AcceptFailed(t) ==
  Completed("accept") /\ last.task = t /\ NonEofFailure(last.res)

C17_read_some ==
  Completed("read") =>
    /\ last.res.ok =>
         /\ last.returned
         /\ last.ret = Some(last.res.val)
         /\ last.ret # None
         /\ last.raised = <<>> /\ last.handled = 0
         /\ Len(last.pre.buf) = last.res.val
    /\ last.res = Err(IoError(EndOfFile, "eof")) =>
         last.returned /\ last.ret = None

\* a read into an empty buffer, with a byte waiting, has returned Some(0)
C17_witness ==
  /\ Completed("read")
  /\ last.res = Ok(0)
  /\ last.ret = Some(0)
  /\ last.pre.inbuf # <<>>

\* C18: every read and write is issued on a stream its caller holds, which
\* a connect or accept returned and which is open, and which stays so while
\* the caller is suspended in the call; a stream goes from
\* waiting to be accepted, to open, to closed, and never back: once closed
\* it stays closed and nobody holds it.
C18_lifecycle ==
  /\ [](last # NoCall /\ last.op \in {"read", "write"} =>
          /\ last.pre.s \in StreamHandles(conns)
          /\ last.pre.connected
          /\ last.pre.st = "open"
          /\ last.pre.owner = last.task)
  /\ [](\A t \in Tasks :
          pc[t] = "parked" /\ pending[t].op \in {"read", "write"} =>
            /\ pending[t].s \in issued
            /\ EndOf(conns, pending[t].s).st = "open"
            /\ EndOf(conns, pending[t].s).owner = t)
  /\ [](\A t \in Tasks : loop[t] # NoHandle =>
          EndOf(conns, loop[t]).st = "open" /\ EndOf(conns, loop[t]).owner = t)
  /\ [](\A h \in StreamHandles(conns) :
          /\ EndOf(conns, h).st = "closed" => EndOf(conns, h).owner = "nobody"
          /\ EndOf(conns, h).st = "queued" => h \notin issued)
  /\ [][\A h \in StreamHandles(conns) :
         /\ EndOf(conns, h).st = "closed" => EndOf(conns', h).st = "closed"
         /\ EndOf(conns, h).st = "open" => EndOf(conns', h).st # "queued"]_vars

\* a write has completed on a stream accept returned, in a run in which
\* another stream has been closed already
C18_witness ==
  /\ Completed("write")
  /\ last.pre.s.side = "s"
  /\ last.pre.connected /\ last.pre.st = "open"
  /\ \E h \in issued : EndOf(conns, h).st = "closed"

\* C19: whatever connect, bind, accept and write raise is io_error, whatever
\* read raises is read_error; so a read that fails, not with end of file,
\* under a handler for io_error alone does not reach that handler: the
\* failure is unhandled and the task fails.
C19_categories ==
  /\ last # NoCall /\ last.op \in {"connect", "bind", "accept", "write"} =>
       \A i \in 1..Len(last.raised) : last.raised[i].cond = "io_error"
  /\ Completed("read") =>
       \A i \in 1..Len(last.raised) : last.raised[i].cond = "read_error"
  /\ Completed("read") /\ NonEofFailure(last.res) /\ last.trap = IoTrap =>
       /\ last.raised = <<Signal("read_error", last.res.err)>>
       /\ last.handled = 0
       /\ ~last.returned
       /\ pc[last.task] = "failed"

\* a read failed under a handler for io_error only; the handler was not
\* invoked and the task has failed
C19_witness ==
  /\ Completed("read")
  /\ last.trap = IoTrap
  /\ NonEofFailure(last.res)
  /\ last.handled = 0
  /\ pc[last.task] = "failed"

\* C20: every call of eof() or flush(), whatever the state of the stream and
\* whatever handlers are installed, fails the calling task: it does not
\* return, it asks nothing of the backend, and it raises neither io_error
\* nor read_error, so no handler runs.
C20_eof_flush_fail ==
  last # NoCall /\ last.op \in {"eof", "flush"} =>
    /\ ~last.returned /\ last.ret = NoRet
    /\ last.res = NoBackendCall
    /\ last.raised = <<>> /\ last.handled = 0
    /\ pc[last.task] = "failed"

\* eof() was called, under handlers for both conditions, on a stream that
\* had reported end of file, and the task has failed
C20_witness ==
  /\ Completed("eof")
  /\ last.pre.eof /\ last.pre.peerClosed
  /\ last.trap = BothTraps
  /\ pc[last.task] = "failed"

\* flush() was called on a stream whose peer had closed, after a write on
\* it had failed, and the task has failed
C20_witness_flush ==
  /\ Completed("flush")
  /\ last.pre.peerClosed
  /\ pc[last.task] = "failed"

====
